---- MODULE Spec2Model ----
(***************************************************************************)
(* Model of autocropper/ExperimentalFunctions.cpp (namespace experimental).*)
(*                                                                         *)
(* An image (cv::Mat, CV_8UC1) is a record [width, height, at] where at    *)
(* maps the point <<x, y>> (x the column, y the row, origin top-left) to   *)
(* the byte stored there.  Every function of the file is an action that    *)
(* is applied to an input drawn by the initial predicate of its            *)
(* specification:                                                          *)
(*   SpecRegion      computeGelLocation, computeInnermostRectangle         *)
(*   SpecForeground  computeForegroundImage, computeForegroundImages       *)
(*   SpecHistogram   plotHistogram                                         *)
(*   SpecMask        generateEnhancedCenterMask                            *)
(*   SpecLines       findLargestHorizontalLines                            *)
(***************************************************************************)
EXTENDS Integers, Sequences, FiniteSets

VARIABLES
    op,                 \* the function being executed
    pc,                 \* position inside that function
    image,              \* the Mat argument (the working Mat of the mask generator)
    result,             \* the value returned
    images,             \* computeForegroundImage(s): the vector<Mat> argument
    pos,                \* number of elements of images the for-each has consumed
    i,                  \* the counter i of computeForegroundImages
    foregroundImage,    \* the local Mat foregroundImage
    pMOG2,              \* the background subtractor: its apply calls, in order
    foregroundImages,   \* the local vector<Mat> foregroundImages
    fileSystem,         \* the files written by imwrite: filename -> image
    hist,               \* plotHistogram: double hist[NUMBER_OF_BINS]
    it,                 \* plotHistogram: distance of the iterator it from begin
    max,                \* plotHistogram: double max / mask generator: maxVal
    quotient,           \* plotHistogram: hist[bin] * WINDOW_HEIGHT / max, per bin
    binHeight,          \* plotHistogram: binHeight, per bin
    histogramImage,     \* plotHistogram: number of pixels line() sets in each column
    size                \* generateEnhancedCenterMask: the Size argument

vars == <<op, pc, image, result, images, pos, i, foregroundImage, pMOG2,
          foregroundImages, fileSystem, hist, it, max, quotient, binHeight,
          histogramImage, size>>

foregroundVars == <<images, pos, i, foregroundImage, pMOG2, foregroundImages, fileSystem>>
histogramVars == <<hist, it, max, quotient, binHeight, histogramImage>>

None == "none"

----------------------------------------------------------------------------
(* Bounds of the inputs.                                                   *)

MaxW == 3          \* largest width of the exhaustively enumerated images
MaxH == 3          \* largest height of the exhaustively enumerated images
MaxFrameDim == 6   \* largest width and height of the hollow-frame images
MaxImages == 3     \* longest vector<Mat> given to computeForegroundImage(s)
MaxHistW == 2      \* largest width of the images given to plotHistogram
MaxHistH == 2      \* largest height of the images given to plotHistogram
MaxMaskW == 4      \* largest width given to generateEnhancedCenterMask
MaxMaskH == 4      \* largest height given to generateEnhancedCenterMask
MaxLineW == 5      \* largest width of the images given to findLargestHorizontalLines
MaxLineH == 1      \* largest height of the images given to findLargestHorizontalLines

----------------------------------------------------------------------------
(* Images.                                                                 *)

Coords(w, h) == (0 .. w - 1) \X (0 .. h - 1)

Mat(w, h, f) == [width |-> w, height |-> h, at |-> f]

ImagesOver(ws, hs, values) ==
    UNION { { Mat(w, h, f) : f \in [Coords(w, h) -> values] } : w \in ws, h \in hs }

NonZero(img) == { p \in Coords(img.width, img.height) : img.at[p] # 0 }

SetMin(S) == CHOOSE a \in S : \A b \in S : a <= b
SetMax(S) == CHOOSE a \in S : \A b \in S : a >= b

Abs(a) == IF a < 0 THEN 0 - a ELSE a

Rect(x, y, w, h) == [x |-> x, y |-> y, width |-> w, height |-> h]

(* An image that is zero except for a hollow frame: the pixels of the      *)
(* rectangle x.o1..x.o2 by y.o1..y.o2 that are not in the hole             *)
(* x.i1..x.i2 by y.i1..y.i2 have the value v.                              *)
FrameImage(w, h, f, v) ==
    Mat(w, h, [p \in Coords(w, h) |->
        IF /\ p[1] \in f.x.o1 .. f.x.o2 /\ p[2] \in f.y.o1 .. f.y.o2
           /\ ~(p[1] \in f.x.i1 .. f.x.i2 /\ p[2] \in f.y.i1 .. f.y.i2)
        THEN v ELSE 0])

(* The extents o1 < i1 <= n/2 <= i2 < o2 of a frame along an axis of       *)
(* length n: the hole i1..i2 holds the center coordinate and the frame is  *)
(* at least one pixel thick on both sides.                                 *)
Spans(n) ==
    UNION { { [o1 |-> a, i1 |-> b, i2 |-> c, o2 |-> d] : a \in 0 .. b - 1, d \in c + 1 .. n - 1 } :
            b \in 1 .. n \div 2, c \in n \div 2 .. n - 2 }

Frames(w, h) == { [x |-> sx, y |-> sy] : sx \in Spans(w), sy \in Spans(h) }

FrameImages ==
    UNION { { FrameImage(w, h, f, v) : f \in Frames(w, h), v \in {1, 255} } :
            w \in 3 .. MaxFrameDim, h \in 3 .. MaxFrameDim }

RegionImages == ImagesOver(1 .. MaxW, 1 .. MaxH, {0, 255}) \cup FrameImages

----------------------------------------------------------------------------
(* computeGelLocation                                                      *)

GelInitFullExtent(img) ==
    [leftMost |-> img.width, rightMost |-> 0,
     topMost |-> img.height, bottomMost |-> 0]

GelInit(img) ==
    [leftMost |-> img.width - 1, rightMost |-> 0,
     topMost |-> img.height - 1, bottomMost |-> 0]

GelVisitElseIf(img, acc, x, y) ==
    IF img.at[<<x, y>>] # 0
    THEN [leftMost   |-> IF x < acc.leftMost THEN x ELSE acc.leftMost,
          rightMost  |-> IF ~(x < acc.leftMost) /\ x > acc.rightMost THEN x ELSE acc.rightMost,
          topMost    |-> IF y < acc.topMost THEN y ELSE acc.topMost,
          bottomMost |-> IF ~(y < acc.topMost) /\ y > acc.bottomMost THEN y ELSE acc.bottomMost]
    ELSE acc

(* The body of the inner loop for the point <<x, y>>.                      *)
GelVisit(img, acc, x, y) ==
    IF img.at[<<x, y>>] # 0
    THEN [leftMost   |-> IF x < acc.leftMost THEN x ELSE acc.leftMost,
          rightMost  |-> IF x > acc.rightMost THEN x ELSE acc.rightMost,
          topMost    |-> IF y < acc.topMost THEN y ELSE acc.topMost,
          bottomMost |-> IF y > acc.bottomMost THEN y ELSE acc.bottomMost]
    ELSE acc

(* The two nested loops: n counts the points visited, column by column.    *)
RECURSIVE GelScan(_, _, _)
GelScan(img, acc, n) ==
    IF n >= img.width * img.height THEN acc
    ELSE GelScan(img, GelVisit(img, acc, n \div img.height, n % img.height), n + 1)

computeGelLocation(img) ==
    LET b == GelScan(img, GelInit(img), 0)
    IN  Rect(b.leftMost, b.topMost, b.rightMost - b.leftMost, b.bottomMost - b.topMost)

----------------------------------------------------------------------------
(* computeInnermostRectangle                                               *)

Center(img) == <<img.width \div 2, img.height \div 2>>

Found(img, x, y) == img.at[<<x, y>>] # 0

RECURSIVE ScanUp(_, _, _)
ScanUp(img, x, y) ==
    IF ~(y >= 0) THEN 0
    ELSE IF Found(img, x, y) THEN y ELSE ScanUp(img, x, y - 1)

RECURSIVE ScanDown(_, _, _)
ScanDown(img, x, y) ==
    IF ~(y < img.height) THEN img.height
    ELSE IF Found(img, x, y) THEN y ELSE ScanDown(img, x, y + 1)

(* The loop without its break: the last hit of the ray wins.               *)
ScanLeftNoBreak(img, x, y) ==
    LET hits == { a \in 0 .. x : Found(img, a, y) }
    IN  IF hits = {} THEN 0 ELSE SetMin(hits)

RECURSIVE ScanLeft(_, _, _)
ScanLeft(img, x, y) ==
    IF ~(x >= 0) THEN 0
    ELSE IF Found(img, x, y) THEN x ELSE ScanLeft(img, x - 1, y)

RECURSIVE ScanRightLastColumn(_, _, _)
ScanRightLastColumn(img, x, y) ==
    IF ~(x < img.width) THEN img.width - 1
    ELSE IF Found(img, x, y) THEN x ELSE ScanRightLastColumn(img, x + 1, y)

RECURSIVE ScanRight(_, _, _)
ScanRight(img, x, y) ==
    IF ~(x < img.width) THEN img.width
    ELSE IF Found(img, x, y) THEN x ELSE ScanRight(img, x + 1, y)

computeInnermostRectangle(img) ==
    LET center == Center(img)
        u == ScanUp(img, center[1], center[2])
        d == ScanDown(img, center[1], center[2])
        l == ScanLeft(img, center[1], center[2])
        r == ScanRight(img, center[1], center[2])
    IN  Rect(l, u, r - l, d - u)

----------------------------------------------------------------------------
(* SpecRegion: the region locators applied to every image of RegionImages. *)

(* The variables of the other functions are not used.                      *)
ForegroundIdle ==
    /\ images = None /\ pos = None /\ i = None /\ foregroundImage = None
    /\ pMOG2 = None /\ foregroundImages = None /\ fileSystem = None

HistogramIdle ==
    /\ hist = None /\ it = None /\ max = None /\ quotient = None
    /\ binHeight = None /\ histogramImage = None

InitRegion ==
    /\ op = None
    /\ pc = "ready"
    /\ image \in RegionImages
    /\ result = None
    /\ ForegroundIdle
    /\ HistogramIdle
    /\ size = None

CallGelLocation ==
    /\ pc = "ready"
    /\ op' = "computeGelLocation"
    /\ result' = computeGelLocation(image)
    /\ pc' = "done"
    /\ UNCHANGED <<image, foregroundVars, histogramVars, size>>

CallInnermostRectangle ==
    /\ pc = "ready"
    /\ op' = "computeInnermostRectangle"
    /\ result' = computeInnermostRectangle(image)
    /\ pc' = "done"
    /\ UNCHANGED <<image, foregroundVars, histogramVars, size>>

NextRegion == CallGelLocation \/ CallInnermostRectangle

SpecRegion == InitRegion /\ [][NextRegion]_vars

----------------------------------------------------------------------------
(* computeForegroundImage, computeForegroundImages                         *)

EmptyMat == Mat(0, 0, <<>>)

(* The frames of a sequence: 2 x 1 images.                                 *)
SequenceFrames == ImagesOver({2}, {1}, {0, 255})

SeqsUpTo(S, n) == UNION { [1 .. k -> S] : k \in 0 .. n }

(* The masks BackgroundSubtractorMOG2::apply may produce for a frame: the  *)
(* mixture model is not modelled, any pixel may be classified either way.  *)
Masks(frame) == [Coords(frame.width, frame.height) -> {0, 255}]

(* foregroundImage = Scalar::all(0); image.copyTo(foregroundImage, mask)   *)
CopyTo(frame, mask) ==
    Mat(frame.width, frame.height,
        [p \in Coords(frame.width, frame.height) |->
            IF mask[p] # 0 THEN frame.at[p] ELSE 0])

buildFilename(base, index) == <<base, index>>

imwrite(files, filename, img) ==
    [n \in DOMAIN files \cup {filename} |-> IF n = filename THEN img ELSE files[n]]

KeepsFromFirst(count) == count > 0

(* if (i > 1)                                                              *)
Keeps(count) == count > 1

InitForeground ==
    /\ op \in {"computeForegroundImage", "computeForegroundImages"}
    /\ pc = "loop"
    /\ images \in SeqsUpTo(SequenceFrames, MaxImages)
    /\ pos = 0
    /\ i = 0
    /\ foregroundImage = EmptyMat
    /\ pMOG2 = <<>>
    /\ foregroundImages = <<>>
    /\ fileSystem = <<>>
    /\ image = None
    /\ result = None
    /\ HistogramIdle
    /\ size = None

(* One iteration of the for-each of computeForegroundImage.                *)
ForegroundImageIteration ==
    /\ op = "computeForegroundImage"
    /\ pc = "loop"
    /\ pos < Len(images)
    /\ \E foregroundMask \in Masks(images[pos + 1]) :
          /\ pMOG2' = Append(pMOG2, [image |-> images[pos + 1], mask |-> foregroundMask])
          /\ foregroundImage' = [source |-> pos + 1,
                                  mat |-> CopyTo(images[pos + 1], foregroundMask)]
    /\ pos' = pos + 1
    /\ UNCHANGED <<op, pc, image, result, images, i, foregroundImages, fileSystem,
                   histogramVars, size>>

ForegroundImageReturn ==
    /\ op = "computeForegroundImage"
    /\ pc = "loop"
    /\ pos = Len(images)
    /\ result' = foregroundImage
    /\ pc' = "done"
    /\ UNCHANGED <<op, image, foregroundVars, histogramVars, size>>

(* One iteration of the for-each of computeForegroundImages.               *)
ForegroundImagesIteration ==
    /\ op = "computeForegroundImages"
    /\ pc = "loop"
    /\ pos < Len(images)
    /\ \E foregroundMask \in Masks(images[pos + 1]) :
          LET fg == [source |-> pos + 1, mat |-> CopyTo(images[pos + 1], foregroundMask)]
              filename == buildFilename("C:\\Temp\\images\\fg", i + 1)
          IN  /\ pMOG2' = Append(pMOG2, [image |-> images[pos + 1], mask |-> foregroundMask])
              /\ foregroundImage' = fg
              /\ i' = i + 1
              /\ IF Keeps(i + 1)
                 THEN /\ fileSystem' = imwrite(fileSystem, filename, fg.mat)
                      /\ foregroundImages' = Append(foregroundImages, fg)
                 ELSE UNCHANGED <<fileSystem, foregroundImages>>
    /\ pos' = pos + 1
    /\ UNCHANGED <<op, pc, image, result, images, histogramVars, size>>

ForegroundImagesReturn ==
    /\ op = "computeForegroundImages"
    /\ pc = "loop"
    /\ pos = Len(images)
    /\ result' = foregroundImages
    /\ pc' = "done"
    /\ UNCHANGED <<op, image, foregroundVars, histogramVars, size>>

NextForeground ==
    \/ ForegroundImageIteration
    \/ ForegroundImageReturn
    \/ ForegroundImagesIteration
    \/ ForegroundImagesReturn

SpecForeground == InitForeground /\ [][NextForeground]_vars

----------------------------------------------------------------------------
(* plotHistogram                                                           *)

NUMBER_OF_BINS == 256
WINDOW_HEIGHT == 256

Bins == 0 .. NUMBER_OF_BINS - 1

(* The images given to plotHistogram; an image of width or height 0 is an  *)
(* empty Mat, whose begin() equals its end().                              *)
HistogramImages == ImagesOver(0 .. MaxHistW, 0 .. MaxHistH, {0, 1, 255})

(* *it: the iterator visits the pixels row by row.                         *)
Deref(img, n) == img.at[<<n % img.width, n \div img.width>>]

TallySet(h, v) == [h EXCEPT ![v] = 1]

(* hist[*it]++                                                             *)
Tally(h, v) == [h EXCEPT ![v] = h[v] + 1]

(* The loop over the bins that starts from max = 0 and takes every larger  *)
(* hist[bin]: it ends with the largest of 0 and the bin counts.            *)
MaxBin(h) == SetMax({0} \cup { h[bin] : bin \in Bins })

NaN == [nan |-> TRUE, num |-> 0, den |-> 0]

(* hist[bin] * WINDOW_HEIGHT / max in IEEE double arithmetic: 0.0 / 0.0 is *)
(* NaN; the numerator is never positive when max is 0.  Otherwise the      *)
(* quotient is kept as the pair of its operands.                           *)
Divide(num, den) == IF den = 0 THEN NaN ELSE [nan |-> FALSE, num |-> num, den |-> den]

Int32Min == -2147483647 - 1

(* static_cast<int> of a NaN is undefined: cvttsd2si yields INT_MIN,       *)
(* fcvtzs yields 0.                                                        *)
NaNToInt == {Int32Min, 0}

(* static_cast<int>(q): the values q may convert to.                       *)
ToInt(q) == IF q.nan THEN NaNToInt ELSE {q.num \div q.den}

(* WINDOW_HEIGHT - binHeight is computed in unsigned int and converted to  *)
(* the int coordinate of the Point: a - b modulo 2^32, as a signed value.  *)
WrapSub(a, b) ==
    IF b < a - 2147483647 THEN ((a - (b + 2147483647)) - 2147483647) - 2 ELSE a - b

(* line(histogramImage, Point(bin, y1), Point(bin, y2)) sets the pixels of *)
(* column bin between the two rows that lie inside the image.              *)
LinePixels(y1, y2) ==
    LET lo == IF y1 < y2 THEN y1 ELSE y2
        hi == IF y1 < y2 THEN y2 ELSE y1
        first == IF lo < 0 THEN 0 ELSE lo
        last == IF hi > WINDOW_HEIGHT - 1 THEN WINDOW_HEIGHT - 1 ELSE hi
    IN  IF first > last THEN 0 ELSE last - first + 1

InitHistogram ==
    /\ op = "plotHistogram"
    /\ pc = "tally"
    /\ image \in HistogramImages
    /\ result = None
    /\ hist = [bin \in Bins |-> 0]
    /\ it = 0
    /\ max = None
    /\ quotient = None
    /\ binHeight = None
    /\ histogramImage = [bin \in Bins |-> 0]
    /\ ForegroundIdle
    /\ size = None

(* One iteration of the tallying loop.                                     *)
TallyPixel ==
    /\ pc = "tally"
    /\ it # image.width * image.height
    /\ hist' = Tally(hist, Deref(image, it))
    /\ it' = it + 1
    /\ UNCHANGED <<op, pc, image, result, foregroundVars, max, quotient, binHeight,
                   histogramImage, size>>

(* The loop that finds the largest bin.                                    *)
FindMax ==
    /\ pc = "tally"
    /\ it = image.width * image.height
    /\ max' = MaxBin(hist)
    /\ pc' = "plot"
    /\ UNCHANGED <<op, image, result, foregroundVars, hist, it, quotient, binHeight,
                   histogramImage, size>>

(* The loop that plots the bins.  The conversion of a NaN is the same      *)
(* instruction with the same operand for every bin.                        *)
PlotBins ==
    /\ pc = "plot"
    /\ quotient' = [bin \in Bins |-> Divide(hist[bin] * WINDOW_HEIGHT, max)]
    /\ \E nan \in NaNToInt :
          binHeight' = [bin \in Bins |->
              IF quotient'[bin].nan THEN nan
              ELSE CHOOSE v \in ToInt(quotient'[bin]) : TRUE]
    /\ histogramImage' = [bin \in Bins |->
          LinePixels(WrapSub(WINDOW_HEIGHT, binHeight'[bin]), WINDOW_HEIGHT)]
    /\ pc' = "return"
    /\ UNCHANGED <<op, image, result, foregroundVars, hist, it, max, size>>

PlotReturn ==
    /\ pc = "return"
    /\ result' = histogramImage
    /\ pc' = "done"
    /\ UNCHANGED <<op, image, foregroundVars, histogramVars, size>>

NextHistogram == TallyPixel \/ FindMax \/ PlotBins \/ PlotReturn

SpecHistogram == InitHistogram /\ [][NextHistogram]_vars

----------------------------------------------------------------------------
(* generateEnhancedCenterMask                                              *)

(* Mat::ones(size, CV_8UC1)                                                *)
Ones(sz) == Mat(sz.width, sz.height, [p \in Coords(sz.width, sz.height) |-> 1])

(* The width of the border padImage adds on every side.                    *)
PadSize == 1

(* padImage: the image inside a border of zeros.                           *)
padImage(img) ==
    Mat(img.width + 2 * PadSize, img.height + 2 * PadSize,
        [p \in Coords(img.width + 2 * PadSize, img.height + 2 * PadSize) |->
            IF /\ p[1] - PadSize \in 0 .. img.width - 1
               /\ p[2] - PadSize \in 0 .. img.height - 1
            THEN img.at[<<p[1] - PadSize, p[2] - PadSize>>]
            ELSE 0])

(* removePadding: the image without the border padImage added.             *)
removePadding(img) ==
    Mat(img.width - 2 * PadSize, img.height - 2 * PadSize,
        [p \in Coords(img.width - 2 * PadSize, img.height - 2 * PadSize) |->
            img.at[<<p[1] + PadSize, p[2] + PadSize>>]])

(* CV_DIST_C: the chessboard distance, which the 3 x 3 mask computes       *)
(* exactly.                                                                *)
Chessboard(p, q) ==
    IF Abs(p[1] - q[1]) > Abs(p[2] - q[2]) THEN Abs(p[1] - q[1]) ELSE Abs(p[2] - q[2])

(* distanceTransform: the distance of every pixel to the nearest zero      *)
(* pixel.                                                                  *)
distanceTransform(img) ==
    LET zeros == { q \in Coords(img.width, img.height) : img.at[q] = 0 }
    IN  Mat(img.width, img.height,
            [p \in Coords(img.width, img.height) |->
                SetMin({ Chessboard(p, q) : q \in zeros })])

(* minMaxLoc(image, NULL, &maxVal)                                         *)
minMaxLoc(img) == SetMax({ img.at[p] : p \in Coords(img.width, img.height) })

ScaleByOne(img, maxVal) ==
    Mat(img.width, img.height,
        [p \in Coords(img.width, img.height) |-> [num |-> img.at[p], den |-> 1]])

(* image *= 1/maxVal: every distance d becomes the fraction d / maxVal     *)
(* (the rounding of the float product is not modelled).                    *)
ScaleByMaxVal(img, maxVal) ==
    Mat(img.width, img.height,
        [p \in Coords(img.width, img.height) |-> [num |-> img.at[p], den |-> maxVal]])

InitMask ==
    /\ op = "generateEnhancedCenterMask"
    /\ pc = "ones"
    /\ size \in [width : 1 .. MaxMaskW, height : 1 .. MaxMaskH]
    /\ image = None
    /\ max = None
    /\ result = None
    /\ ForegroundIdle
    /\ hist = None /\ it = None /\ quotient = None
    /\ binHeight = None /\ histogramImage = None

maskIdle == <<op, result, foregroundVars, hist, it, quotient, binHeight, histogramImage, size>>

MaskOnes ==
    /\ pc = "ones"
    /\ image' = Ones(size)
    /\ pc' = "pad"
    /\ UNCHANGED <<maskIdle, max>>

MaskPad ==
    /\ pc = "pad"
    /\ image' = padImage(image)
    /\ pc' = "distance"
    /\ UNCHANGED <<maskIdle, max>>

MaskDistanceTransform ==
    /\ pc = "distance"
    /\ image' = distanceTransform(image)
    /\ pc' = "minmax"
    /\ UNCHANGED <<maskIdle, max>>

MaskMinMaxLoc ==
    /\ pc = "minmax"
    /\ max' = minMaxLoc(image)
    /\ pc' = "scale"
    /\ UNCHANGED <<maskIdle, image>>

MaskScale ==
    /\ pc = "scale"
    /\ image' = ScaleByMaxVal(image, max)
    /\ pc' = "unpad"
    /\ UNCHANGED <<maskIdle, max>>

MaskRemovePadding ==
    /\ pc = "unpad"
    /\ image' = removePadding(image)
    /\ pc' = "return"
    /\ UNCHANGED <<maskIdle, max>>

MaskReturn ==
    /\ pc = "return"
    /\ result' = image
    /\ pc' = "done"
    /\ UNCHANGED <<op, image, foregroundVars, histogramVars, size>>

NextMask ==
    \/ MaskOnes \/ MaskPad \/ MaskDistanceTransform \/ MaskMinMaxLoc
    \/ MaskScale \/ MaskRemovePadding \/ MaskReturn

SpecMask == InitMask /\ [][NextMask]_vars

----------------------------------------------------------------------------
(* findLargestHorizontalLines                                              *)

(* getStructuringElement(MORPH_RECT, ksize): a ksize rectangle of ones.    *)
getStructuringElement(w, h) == [width |-> w, height |-> h]

(* The default anchor (-1, -1) is the center of the element.               *)
normalizeAnchor(ksize) == <<ksize.width \div 2, ksize.height \div 2>>

(* The pixels under the element when its anchor lies on p.                 *)
Under(p, ksize) ==
    { <<p[1] - normalizeAnchor(ksize)[1] + a, p[2] - normalizeAnchor(ksize)[2] + b>> :
        a \in 0 .. ksize.width - 1, b \in 0 .. ksize.height - 1 }

(* erode: the minimum under the element; pixels outside the image do not   *)
(* lower it (the default border value).                                    *)
erode(img, ksize) ==
    Mat(img.width, img.height,
        [p \in Coords(img.width, img.height) |->
            SetMin({255} \cup { img.at[q] : q \in Under(p, ksize) \cap DOMAIN img.at })])

(* dilate: the maximum under the element; pixels outside the image do not  *)
(* raise it.                                                               *)
dilate(img, ksize) ==
    Mat(img.width, img.height,
        [p \in Coords(img.width, img.height) |->
            SetMax({0} \cup { img.at[q] : q \in Under(p, ksize) \cap DOMAIN img.at })])

(* morphologyEx(src, dst, MORPH_OPEN, kernel): erode, then dilate, both    *)
(* with the same element and anchor.                                       *)
morphologyExOpen(img, ksize) == dilate(erode(img, ksize), ksize)

findLargestHorizontalLines(img) ==
    LET horizElem == getStructuringElement(img.width \div 2, 1)
    IN  morphologyExOpen(img, horizElem)

(* The images given to findLargestHorizontalLines. Size(width / 2, 1) is   *)
(* an element only from a width of 2.                                      *)
LineImages == ImagesOver(2 .. MaxLineW, 1 .. MaxLineH, {0, 128, 255})

InitLines ==
    /\ op = "findLargestHorizontalLines"
    /\ pc = "ready"
    /\ image \in LineImages
    /\ result = None
    /\ ForegroundIdle
    /\ HistogramIdle
    /\ size = None

CallFindLargestHorizontalLines ==
    /\ pc = "ready"
    /\ result' = findLargestHorizontalLines(image)
    /\ pc' = "once"
    /\ UNCHANGED <<op, image, foregroundVars, histogramVars, size>>

(* The caller passes the image returned to the function again.             *)
CallFindLargestHorizontalLinesAgain ==
    /\ pc = "once"
    /\ image' = result
    /\ result' = findLargestHorizontalLines(result)
    /\ pc' = "twice"
    /\ UNCHANGED <<op, foregroundVars, histogramVars, size>>

NextLines == CallFindLargestHorizontalLines \/ CallFindLargestHorizontalLinesAgain

SpecLines == InitLines /\ [][NextLines]_vars

----------------------------------------------------------------------------
(* Properties of the region locators.                                      *)

Returned(f) == pc = "done" /\ op = f

Xs(S) == { p[1] : p \in S }
Ys(S) == { p[2] : p \in S }

(* C1: for an image with at least one non-zero pixel computeGelLocation    *)
(* returns Rect(minX, minY, maxX - minX, maxY - minY) over the non-zero    *)
(* pixels; its width and height are not negative, every pixel outside it   *)
(* is zero and each of its four edges holds a non-zero pixel.              *)
GelLocationBoundsNonZero ==
    (Returned("computeGelLocation") /\ NonZero(image) # {}) =>
        LET S == NonZero(image)
            left == result.x
            top == result.y
            right == result.x + result.width
            bottom == result.y + result.height
        IN  /\ result = Rect(SetMin(Xs(S)), SetMin(Ys(S)),
                             SetMax(Xs(S)) - SetMin(Xs(S)), SetMax(Ys(S)) - SetMin(Ys(S)))
            /\ result.width >= 0 /\ result.height >= 0
            /\ \A p \in Coords(image.width, image.height) :
                   (p[1] < left \/ p[1] > right \/ p[2] < top \/ p[2] > bottom)
                       => image.at[p] = 0
            /\ \E p \in S : p[1] = left
            /\ \E p \in S : p[1] = right
            /\ \E p \in S : p[2] = top
            /\ \E p \in S : p[2] = bottom

GelLocationOfSeveralPixels ==
    /\ Returned("computeGelLocation")
    /\ Cardinality(NonZero(image)) >= 2
    /\ result.x >= 1 /\ result.width >= 1 /\ result.height >= 1
    /\ result.x + result.width < image.width - 1

AllZero(img) == NonZero(img) = {}

(* C2 as stated: for an all-zero image computeGelLocation returns a        *)
(* rectangle of negative width and negative height.                        *)
GelLocationOfAllZeroIsNegative ==
    (Returned("computeGelLocation") /\ AllZero(image)) =>
        (result.width < 0 /\ result.height < 0)

(* C2 as amended: for an all-zero image computeGelLocation returns its     *)
(* sentinels unclamped, Rect(width-1, height-1, 1-width, 1-height): the    *)
(* width is negative exactly when the image is more than one pixel wide,   *)
(* the height exactly when it is more than one pixel high, and is zero     *)
(* otherwise.                                                              *)
GelLocationOfAllZeroIsSentinel ==
    (Returned("computeGelLocation") /\ AllZero(image)) =>
        /\ result = Rect(image.width - 1, image.height - 1,
                         1 - image.width, 1 - image.height)
        /\ (result.width < 0 <=> image.width > 1)
        /\ (result.height < 0 <=> image.height > 1)
        /\ result.width <= 0 /\ result.height <= 0

GelLocationOfAllZeroWideImage ==
    /\ Returned("computeGelLocation") /\ AllZero(image)
    /\ image.width > 1 /\ image.height > 1
    /\ result.width < 0 /\ result.height < 0

NearestBelow(hits, default) == IF hits = {} THEN default ELSE SetMax(hits)
NearestAbove(hits, default) == IF hits = {} THEN default ELSE SetMin(hits)

----------------------------------------------------------------------------
(* Properties of the foreground separation.                                *)

(* C4: computeForegroundImages applies the background subtractor to every  *)
(* frame of a sequence of N >= 1 frames, the first included, in order,     *)
(* returns at most N - 1 foreground frames and none derived from the first *)
(* frame; for the empty sequence it returns the empty sequence.            *)
ForegroundImagesSkipFirst ==
    Returned("computeForegroundImages") =>
        /\ [k \in 1 .. Len(pMOG2) |-> pMOG2[k].image] = images
        /\ Len(images) >= 1 => Len(result) <= Len(images) - 1
        /\ \A k \in 1 .. Len(result) : result[k].source # 1
        /\ images = <<>> => result = <<>>

ForegroundImagesOfThreeFrames ==
    /\ Returned("computeForegroundImages")
    /\ Len(images) = 3
    /\ Len(result) = 2
    /\ result[1].source = 2 /\ result[2].source = 3

(* C9: processing the frames of a sequence writes no file.                 *)
ForegroundWritesNoFile == fileSystem = <<>>

----------------------------------------------------------------------------
(* Properties of plotHistogram.                                            *)

(* The sum of the bins lo .. hi.                                           *)
RECURSIVE SumBins(_, _, _)
SumBins(h, lo, hi) ==
    IF lo > hi THEN 0
    ELSE IF lo = hi THEN h[lo]
    ELSE SumBins(h, lo, (lo + hi) \div 2) + SumBins(h, (lo + hi) \div 2 + 1, hi)

(* C5: after the tallying loop of plotHistogram the 256 bin counts are not *)
(* negative and sum to width x height of the image.                        *)
HistogramSumsToPixelCount ==
    (op = "plotHistogram" /\ pc # "tally") =>
        /\ \A bin \in Bins : hist[bin] >= 0
        /\ SumBins(hist, 0, NUMBER_OF_BINS - 1) = image.width * image.height

HistogramOfMixedImage ==
    /\ op = "plotHistogram" /\ pc = "plot"
    /\ image.width * image.height = 4
    /\ hist[0] = 1 /\ hist[255] = 2 /\ hist[1] = 1

(* C6: when the largest bin count is zero, plotHistogram divides by no     *)
(* zero and draws every bar at height zero.                                *)
HistogramOfNoPixelsDrawsNoBars ==
    (Returned("plotHistogram") /\ max = 0) =>
        /\ \A bin \in Bins : ~quotient[bin].nan
        /\ \A bin \in Bins : binHeight[bin] = 0
        /\ \A bin \in Bins : result[bin] = 0

----------------------------------------------------------------------------
(* Properties of generateEnhancedCenterMask.                               *)

Less(a, b) == a.num * b.den < b.num * a.den
Equal(a, b) == a.num * b.den = b.num * a.den

(* The four axis-aligned directions.                                       *)
Directions == { <<1, 0>>, <<0 - 1, 0>>, <<0, 1>>, <<0, 0 - 1>> }

(* The steps <<p, q>> of the ray that leaves the center of img in the      *)
(* direction dir: q is the pixel after p.                                  *)
RaySteps(img, dir) ==
    { <<p, q>> \in (DOMAIN img.at) \X (DOMAIN img.at) :
        /\ \E n \in 0 .. img.width + img.height :
               p = <<Center(img)[1] + n * dir[1], Center(img)[2] + n * dir[2]>>
        /\ q = <<p[1] + dir[1], p[2] + dir[2]>> }

(* C7 as stated: the mask is 1.0 at the center pixel and strictly          *)
(* decreases at every step outward along the four axis-aligned rays.       *)
MaskStrictlyDecreasesFromCenter ==
    Returned("generateEnhancedCenterMask") =>
        /\ Equal(result.at[Center(result)], [num |-> 1, den |-> 1])
        /\ \A dir \in Directions : \A s \in RaySteps(result, dir) :
               Less(result.at[s[2]], result.at[s[1]])

(* C7 as amended: the mask has its largest value, maxVal / maxVal = 1.0,   *)
(* at the center pixel, and never increases at a step outward along the    *)
(* four axis-aligned rays.                                                 *)
MaskNeverIncreasesFromCenter ==
    Returned("generateEnhancedCenterMask") =>
        /\ result.width = size.width /\ result.height = size.height
        /\ Equal(result.at[Center(result)], [num |-> 1, den |-> 1])
        /\ \A p \in DOMAIN result.at : ~Less(result.at[Center(result)], result.at[p])
        /\ \A dir \in Directions : \A s \in RaySteps(result, dir) :
               ~Less(result.at[s[1]], result.at[s[2]])

(* A mask whose rays have a flat step and a falling step.                  *)
MaskOfFourByFour ==
    /\ Returned("generateEnhancedCenterMask")
    /\ size.width = 4 /\ size.height = 4
    /\ Equal(result.at[<<1, 2>>], result.at[<<2, 2>>])
    /\ Less(result.at[<<0, 2>>], result.at[<<1, 2>>])

----------------------------------------------------------------------------
(* Properties of findLargestHorizontalLines.                               *)

(* C8: findLargestHorizontalLines returns an image of the dimensions of    *)
(* its argument, and applied to its own result it returns that result.     *)
HorizontalLinesIdempotent ==
    (op = "findLargestHorizontalLines" /\ pc \in {"once", "twice"}) =>
        /\ result.width = image.width /\ result.height = image.height
        /\ pc = "twice" => result = image

====
